---- MODULE Spec2Model ----
(***************************************************************************)
(* rslog: a logfmt-style formatter for log15 records and the file and      *)
(* syslog handlers built on it (logger.go).                                *)
(*                                                                         *)
(* A string is a sequence of characters.  A character is a one-character   *)
(* TLA+ string; the date and the clock of a timestamp are kept as one      *)
(* token each (they hold digits, '-' and ':' only, never a character that  *)
(* the formatter treats specially).                                        *)
(***************************************************************************)
EXTENDS Integers, Sequences, FiniteSets, TLC

VARIABLES
    req,        \* the formatter asked for: [kind, f, timestamps]
    rec,        \* the record of the latest (or the coming) Format call
    out,        \* <<>>, or <<b>> with b the buffer the latest Format call ended with
    snap,       \* <<>>, or <<[r, out]>>: an earlier Format call, remembered
    sawOther,   \* a different record was formatted since the remembered call
    handler,    \* <<>>, or <<h>> with h the handler a constructor returned
    ret,        \* <<>>, or <<[h, err]>>: what the latest constructor returned
    opens,      \* the calls made to the sink openers, in order
    file,       \* the content of the log file
    handled,    \* the records passed to the handler, in order
    sysCalls,   \* the calls made to the syslog writer, in order
    logRet,     \* what each handler call returned, in order
    call,       \* <<>>, or <<[fn, addr, tag]>>: the constructor call made
    val,        \* the context value given to the value encoder
    encoded     \* <<>>, or <<s>> with s the text the value encoder returned

fmtVars == <<req, rec, out, snap, sawOther>>
sinkVars == <<handler, ret, opens, file, handled, sysCalls, logRet>>
encVars == <<val, encoded>>
vars == <<req, rec, out, snap, sawOther, handler, ret, opens, file, handled,
          sysCalls, logRet, call, val, encoded>>

(***************************************************************************)
(* Bounds of the model.                                                    *)
(***************************************************************************)
MaxCtx == 4          \* longest context list of a formatted record
MaxMsgLen == 2       \* longest message of a formatted record
MaxLog == 2          \* most records handled by one handler
MaxStrLen == 2       \* longest string given to the value encoder
MaxSixteenths == 40  \* largest magnitude of a float given to the encoder, in 1/16
MaxLineCtx == 4      \* longest context list of a record of SpecLine

(***************************************************************************)
(* Strings.                                                                *)
(***************************************************************************)
LowerLetters == <<"a","b","c","d","e","f","g","h","i","j","k","l","m",
                  "n","o","p","q","r","s","t","u","v","w","x","y","z">>
UpperLetters == <<"A","B","C","D","E","F","G","H","I","J","K","L","M",
                  "N","O","P","Q","R","S","T","U","V","W","X","Y","Z">>

\* strings.ToUpper, one character
ToUpperChar(c) ==
    IF \E i \in DOMAIN LowerLetters : LowerLetters[i] = c
    THEN UpperLetters[CHOOSE i \in DOMAIN LowerLetters : LowerLetters[i] = c]
    ELSE c

\* strings.ToUpper
ToUpper(s) == [i \in DOMAIN s |-> ToUpperChar(s[i])]

\* bytes.Repeat([]byte{' '}, n)
Repeat(n) == [i \in 1..n |-> " "]

\* the characters unicode.IsSpace accepts, among those of the model
WhiteSpace == {" ", "\n", "\t", "\r"}

\* the characters at or below ' ' (escapeString: r <= ' '), among those of the model
AtOrBelowSpace == {" ", "\n", "\t", "\r"}

RECURSIVE TrimLeft(_)
TrimLeft(s) == IF Len(s) > 0 /\ Head(s) \in WhiteSpace THEN TrimLeft(Tail(s)) ELSE s

RECURSIVE TrimRight(_)
TrimRight(s) ==
    IF Len(s) > 0 /\ s[Len(s)] \in WhiteSpace
    THEN TrimRight(SubSeq(s, 1, Len(s) - 1))
    ELSE s

\* strings.TrimSpace
TrimSpace(s) == TrimRight(TrimLeft(s))

DigitChars == <<"0","1","2","3","4","5","6","7","8","9">>

\* fmt.Sprintf("%d", n)
RECURSIVE FormatInt(_)
FormatInt(n) ==
    IF n < 0 THEN <<"-">> \o FormatInt(0 - n)
    ELSE IF n < 10 THEN <<DigitChars[n + 1]>>
    ELSE FormatInt(n \div 10) \o <<DigitChars[(n % 10) + 1]>>

(***************************************************************************)
(* log15 levels (log15.Lvl) and their names.                               *)
(***************************************************************************)
LvlCrit == 0
LvlError == 1
LvlWarn == 2
LvlInfo == 3
LvlDebug == 4
LvlOther == 5        \* a Lvl value that is none of the five named levels

ValidLvls == {LvlCrit, LvlError, LvlWarn, LvlInfo, LvlDebug}
Lvls == ValidLvls \cup {LvlOther}

\* log15's Lvl.String(): the four-letter lower-case name of a named level.
\* It panics ("bad level") on any other value; LvlStringPanics says when.
LvlString(l) ==
    CASE l = LvlDebug -> <<"d","b","u","g">>
      [] l = LvlInfo  -> <<"i","n","f","o">>
      [] l = LvlWarn  -> <<"w","a","r","n">>
      [] l = LvlError -> <<"e","r","o","r">>
      [] l = LvlCrit  -> <<"c","r","i","t">>

LvlStringPanics(l) == l \notin ValidLvls

(***************************************************************************)
(* Timestamps.  A time is its date and its clock; a layout is a sequence   *)
(* of layout elements, the reference date and the reference clock being    *)
(* the two fields, everything else literal text.                           *)
(***************************************************************************)
RefDate == "2006-01-02"
RefClock == "15:04:05"

simpleTimeFormat == <<RefDate, " ", RefClock>>
simpleMsgJust == 40

\* time.Time.Format(layout)
TimeFormat(t, layout) ==
    [i \in DOMAIN layout |->
        IF layout[i] = RefDate THEN t.date
        ELSE IF layout[i] = RefClock THEN t.clock
        ELSE layout[i]]

(***************************************************************************)
(* Context values (interface{}).  t is the dynamic type, s the text the    *)
(* value carries (a string's content, an error's Error(), a struct's "%+v" *)
(* rendering, the name of a float that is no number), str the text of its  *)
(* String() method, n its number (a float's value in sixteenths), tm its   *)
(* time.                                                                   *)
(***************************************************************************)
NoTime == [date |-> "", clock |-> ""]

Nil == [t |-> "nil", s |-> <<>>, str |-> <<>>, n |-> 0, tm |-> NoTime]
StrVal(s) == [t |-> "string", s |-> s, str |-> <<>>, n |-> 0, tm |-> NoTime]
IntVal(n) == [t |-> "int", s |-> <<>>, str |-> <<>>, n |-> n, tm |-> NoTime]
BoolVal(b) ==
    [t |-> "bool", s |-> <<>>, str |-> <<>>, n |-> IF b THEN 1 ELSE 0, tm |-> NoTime]
\* a time.Time; its String() method writes the zone after the clock
TimeVal(tm) ==
    [t |-> "time", s |-> <<>>, n |-> 0, tm |-> tm,
     str |-> <<tm.date, " ", tm.clock, " ", "+", "0", "0", "0", "0", " ", "U", "T", "C">>]
ErrorVal(s) == [t |-> "error", s |-> s, str |-> <<>>, n |-> 0, tm |-> NoTime]
StringerVal(s) == [t |-> "stringer", s |-> <<>>, str |-> s, n |-> 0, tm |-> NoTime]
StructVal(s) == [t |-> "struct", s |-> s, str |-> <<>>, n |-> 0, tm |-> NoTime]
\* a value that is an error and a fmt.Stringer at once
ErrorStringerVal(e, s) ==
    [t |-> "error+stringer", s |-> e, str |-> s, n |-> 0, tm |-> NoTime]
\* a nil pointer whose Error() or String() method panics on the nil receiver
NilPtrVal == [t |-> "nilptr", s |-> <<>>, str |-> <<>>, n |-> 0, tm |-> NoTime]
\* an integer of the type ty: int, int8 .. int64, uint, uint8 .. uint64
IntOfType(ty, n) == [t |-> ty, s |-> <<>>, str |-> <<>>, n |-> n, tm |-> NoTime]
\* the finite float32 or float64 n/16
FloatVal(ty, n) == [t |-> ty, s |-> <<>>, str |-> <<>>, n |-> n, tm |-> NoTime]
\* the float32 or float64 NaN, +Inf or -Inf
FloatSpecial(ty, name) == [t |-> ty, s |-> name, str |-> <<>>, n |-> 0, tm |-> NoTime]

IntTypes == {"int", "int8", "int16", "int32", "int64",
             "uint", "uint8", "uint16", "uint32", "uint64"}
FloatTypes == {"float32", "float64"}

\* the type assertion value.(string)
IsString(v) == v.t = "string"

(***************************************************************************)
(* The value encoder.                                                      *)
(***************************************************************************)
\* mutant: a newline is copied as it is
EscapeRune_KeepsNewline(r) ==
    CASE r = "\\" -> <<"\\", "\\">>
      [] r = "\"" -> <<"\\", "\"">>
      [] r = "\r" -> <<"\\", "r">>
      [] r = "\t" -> <<"\\", "t">>
      [] OTHER    -> <<r>>

\* escapeString: the escaped form of one rune
EscapeRune(r) ==
    CASE r = "\\" -> <<"\\", "\\">>
      [] r = "\"" -> <<"\\", "\"">>
      [] r = "\n" -> <<"\\", "n">>
      [] r = "\r" -> <<"\\", "r">>
      [] r = "\t" -> <<"\\", "t">>
      [] OTHER    -> <<r>>

RECURSIVE EscapeRunes(_)
EscapeRunes(s) == IF s = <<>> THEN <<>> ELSE EscapeRune(Head(s)) \o EscapeRunes(Tail(s))

\* mutant: an '=' does not ask for quotes
NeedQuotes_NoEquals(s) ==
    \E i \in DOMAIN s : s[i] \in AtOrBelowSpace \/ s[i] = "\""

\* escapeString: needQuotes
NeedQuotes(s) ==
    \E i \in DOMAIN s : s[i] \in AtOrBelowSpace \/ s[i] = "=" \/ s[i] = "\""

escapeString(s) ==
    LET e == <<"\"">> \o EscapeRunes(s) \o <<"\"">>
    IN  IF NeedQuotes(s) THEN e ELSE SubSeq(e, 2, Len(e) - 1)

\* which of the interfaces of the type switch of formatShared a value has
IsTime(v) == v.t = "time"
IsError(v) == v.t \in {"error", "error+stringer"}
IsStringer(v) == v.t \in {"stringer", "error+stringer", "time"}

\* mutant: the case fmt.Stringer is tried before the case error
formatShared_StringerFirst(v) ==
    IF v.t = "nilptr" THEN StrVal(<<"n","i","l">>)
    ELSE IF IsTime(v) THEN StrVal(TimeFormat(v.tm, simpleTimeFormat))
    ELSE IF IsStringer(v) THEN StrVal(v.str)
    ELSE IF IsError(v) THEN StrVal(v.s)
    ELSE v

\* formatShared: a time, an error and a Stringer become strings, in that order;
\* the panic of a method called on a nil pointer is recovered into "nil"
formatShared(v) ==
    IF v.t = "nilptr" THEN StrVal(<<"n","i","l">>)
    ELSE IF IsTime(v) THEN StrVal(TimeFormat(v.tm, simpleTimeFormat))
    ELSE IF IsError(v) THEN StrVal(v.s)
    ELSE IF IsStringer(v) THEN StrVal(v.str)
    ELSE v

\* three digits, zeros in front
ThreeDigits(n) ==
    <<DigitChars[(n \div 100) + 1], DigitChars[((n \div 10) % 10) + 1],
      DigitChars[(n % 10) + 1]>>

\* the thousandth nearest to a/16 (a >= 0), a tie going to the even one
RoundToThousandths(a) ==
    LET twice == a * 125                \* a/16 in 1/2000
        q == twice \div 2
    IN  IF twice % 2 = 1 /\ q % 2 = 1 THEN q + 1 ELSE q

\* mutant: the fraction is written without its leading zeros
FormatFloat_NoLeadingZeros(v) ==
    IF v.s # <<>> THEN v.s
    ELSE LET a == IF v.n < 0 THEN 0 - v.n ELSE v.n
             m == RoundToThousandths(a)
         IN  (IF v.n < 0 THEN <<"-">> ELSE <<>>)
             \o FormatInt(m \div 1000) \o <<".">> \o FormatInt(m % 1000)

\* strconv.FormatFloat(v, 'f', 3, 64)
FormatFloat(v) ==
    IF v.s # <<>> THEN v.s
    ELSE LET a == IF v.n < 0 THEN 0 - v.n ELSE v.n
             m == RoundToThousandths(a)
         IN  (IF v.n < 0 THEN <<"-">> ELSE <<>>)
             \o FormatInt(m \div 1000) \o <<".">> \o ThreeDigits(m % 1000)

\* mutant: the "%+v" rendering of the default case is returned as it is
formatLogfmtValue_RawDefault(value) ==
    IF value.t = "nil" THEN <<"n","i","l">>
    ELSE LET v == formatShared(value)
         IN  CASE v.t = "bool"      -> IF v.n = 1 THEN <<"t","r","u","e">>
                                                  ELSE <<"f","a","l","s","e">>
               [] v.t \in FloatTypes -> FormatFloat(v)
               [] v.t \in IntTypes   -> FormatInt(v.n)
               [] v.t = "string"    -> escapeString(v.s)
               [] OTHER             -> v.s

formatLogfmtValue(value) ==
    IF value.t = "nil" THEN <<"n","i","l">>
    ELSE LET v == formatShared(value)
         IN  CASE v.t = "bool"      -> IF v.n = 1 THEN <<"t","r","u","e">>
                                                  ELSE <<"f","a","l","s","e">>
               [] v.t \in FloatTypes -> FormatFloat(v)
               [] v.t \in IntTypes   -> FormatInt(v.n)
               [] v.t = "string"    -> escapeString(v.s)
               [] OTHER             -> escapeString(v.s)

(***************************************************************************)
(* The line formatter.  The buffer of one Format call is [ok, bytes]: ok   *)
(* is FALSE once the call has panicked, and then nothing is returned.      *)
(***************************************************************************)
Panicked == [ok |-> FALSE, bytes |-> <<>>]

\* bytes.Buffer.WriteString / WriteByte / Write
Write(b, s) == IF b.ok THEN [ok |-> TRUE, bytes |-> b.bytes \o s] ELSE b

\* the separating space written when the buffer is not empty
WriteSpaceIfAny(b) == IF b.ok /\ Len(b.bytes) > 0 THEN Write(b, <<" ">>) ELSE b

\* mutant: one buffer kept across the calls of a formatter
NewBuffer_Shared ==
    IF out # <<>> /\ out[1].ok THEN out[1] ELSE [ok |-> TRUE, bytes |-> <<>>]

\* b := &bytes.Buffer{}
NewBuffer == [ok |-> TRUE, bytes |-> <<>>]

\* logger.go 121-126
WriteTime(b, f, r) ==
    IF f.TimestampFormat # <<>>
    THEN Write(b, <<"[">> \o TimeFormat(r.Time, f.TimestampFormat) \o <<"]">>)
    ELSE b

\* mutant: the space before the level is written even into an empty buffer
WriteLevel_AlwaysSpace(b, f, r) ==
    IF ~b.ok THEN b
    ELSE IF f.Level
    THEN IF LvlStringPanics(r.Lvl) THEN Panicked
         ELSE Write(Write(b, <<" ">>), ToUpper(LvlString(r.Lvl)))
    ELSE b

\* logger.go 128-134
WriteLevel(b, f, r) ==
    IF ~b.ok THEN b
    ELSE IF f.Level
    THEN IF LvlStringPanics(r.Lvl) THEN Panicked
         ELSE Write(WriteSpaceIfAny(b), ToUpper(LvlString(r.Lvl)))
    ELSE b

\* mutant: an empty-string key at any key position makes the empty tag
HasEmptyTag_Anywhere(context) ==
    \E i \in DOMAIN context :
        i % 2 = 1 /\ IsString(context[i]) /\ Len(context[i].s) = 0

\* logger.go 143-146: the context starts with the empty tag
HasEmptyTag(context) ==
    Len(context) > 0 /\ IsString(context[1]) /\ Len(context[1].s) = 0

\* logger.go 141, 146
ContextOffset(context) == IF HasEmptyTag(context) THEN 2 ELSE 0

\* mutant: the value of the empty tag is escaped and quoted like a pair's value
WriteEmptyTag_Escaped(b, r) ==
    IF ~b.ok THEN b
    ELSE IF HasEmptyTag(r.Ctx)
    THEN IF Len(r.Ctx) < 2 THEN Panicked
         ELSE IF IsString(r.Ctx[2])
              THEN Write(WriteSpaceIfAny(b), escapeString(r.Ctx[2].s))
              ELSE Write(WriteSpaceIfAny(b),
                         <<"L","O","G","_","E","R","R","=","\"","\"">>)
    ELSE b

\* logger.go 140-157; context[1] of the source is context[2] here
WriteEmptyTag(b, r) ==
    IF ~b.ok THEN b
    ELSE IF HasEmptyTag(r.Ctx)
    THEN IF Len(r.Ctx) < 2 THEN Panicked        \* index out of range
         ELSE IF IsString(r.Ctx[2])
              THEN Write(WriteSpaceIfAny(b), r.Ctx[2].s)
              ELSE Write(WriteSpaceIfAny(b),
                         <<"L","O","G","_","E","R","R","=","\"","\"">>)
    ELSE b

\* logger.go 159-166
WriteMessage(b, r) ==
    IF Len(r.Msg) > 0 THEN Write(WriteSpaceIfAny(b), r.Msg) ELSE b

\* mutant: pads by the full width whatever the length of the message
WriteJustification_FullWidth(b, f, r) ==
    IF Len(r.Msg) < f.MsgJustification
    THEN Write(b, Repeat(f.MsgJustification))
    ELSE b

\* logger.go 171-174
WriteJustification(b, f, r) ==
    IF Len(r.Msg) < f.MsgJustification
    THEN Write(b, Repeat(f.MsgJustification - Len(r.Msg)))
    ELSE b

\* logger.go 176-181
WriteSeparator(b, f) ==
    IF f.MsgCtxSeparator = <<>> THEN Write(b, <<" ">>) ELSE Write(b, f.MsgCtxSeparator)

\* mutant: the test i != contextOffset turned into i == contextOffset
PairSeparator_FirstOnly(b, i, contextOffset) ==
    IF Len(b.bytes) > 0 /\ i = contextOffset THEN <<" ">> ELSE <<>>

\* logger.go 192-196: the separator between two key/value pairs
PairSeparator(b, i, contextOffset) ==
    IF Len(b.bytes) > 0 /\ i # contextOffset THEN <<" ">> ELSE <<>>

\* mutant: after a key that is no string the loop goes on at the next element
RECURSIVE WritePairs_ErrStepsOne(_, _, _, _)
WritePairs_ErrStepsOne(b, context, i, contextOffset) ==
    IF ~b.ok \/ i >= Len(context) THEN b
    ELSE LET sep == PairSeparator(b, i, contextOffset)
         IN  IF IsString(context[i + 1])
             THEN IF i + 2 > Len(context) THEN Panicked
                  ELSE WritePairs_ErrStepsOne(
                         Write(b, sep \o context[i + 1].s \o <<"=">>
                                      \o formatLogfmtValue(context[i + 2])),
                         context, i + 2, contextOffset)
             ELSE WritePairs_ErrStepsOne(
                    Write(b, sep \o <<"L","O","G","_","E","R","R">> \o <<"=">>
                                 \o formatLogfmtValue(context[i + 1])),
                    context, i + 1, contextOffset)

\* logger.go 184-200: the loop from source index i (context[i] is context[i+1] here)
RECURSIVE WritePairs(_, _, _, _)
WritePairs(b, context, i, contextOffset) ==
    IF ~b.ok \/ i >= Len(context) THEN b
    ELSE LET sep == PairSeparator(b, i, contextOffset)
         IN  IF IsString(context[i + 1])
             THEN IF i + 2 > Len(context) THEN Panicked      \* index out of range
                  ELSE WritePairs(
                         Write(b, sep \o context[i + 1].s \o <<"=">>
                                      \o formatLogfmtValue(context[i + 2])),
                         context, i + 2, contextOffset)
             ELSE WritePairs(
                    Write(b, sep \o <<"L","O","G","_","E","R","R">> \o <<"=">>
                                 \o formatLogfmtValue(context[i + 1])),
                    context, i + 2, contextOffset)

\* logger.go 168-201
WriteContext(b, f, r) ==
    IF ~b.ok THEN b
    ELSE IF Len(r.Ctx) > ContextOffset(r.Ctx)
    THEN WritePairs(WriteSeparator(WriteJustification(b, f, r), f),
                    r.Ctx, ContextOffset(r.Ctx), ContextOffset(r.Ctx))
    ELSE b

\* The closure ConfigurableFormatter returns is its captured FmtConfig.
ConfigurableFormatter(f) == f

\* log15.Format.Format of that closure
Format(f, r) ==
    Write(WriteContext(
            WriteMessage(
              WriteEmptyTag(
                WriteLevel(
                  WriteTime(NewBuffer, f, r), f, r), r), r), f, r), <<"\n">>)

\* mutant: switching the timestamps off switches the level off as well
SimpleFormat_DropsLevel(timestamps) ==
    ConfigurableFormatter(
        [TimestampFormat  |-> IF timestamps THEN simpleTimeFormat ELSE <<>>,
         Level            |-> timestamps,
         MsgCtxSeparator  |-> <<>>,
         MsgJustification |-> simpleMsgJust])

\* logger.go 82-92
SimpleFormat(timestamps) ==
    ConfigurableFormatter(
        [TimestampFormat  |-> IF timestamps THEN simpleTimeFormat ELSE <<>>,
         Level            |-> TRUE,
         MsgCtxSeparator  |-> <<>>,
         MsgJustification |-> simpleMsgJust])

\* mutant: the level is left on
TerseFormat_WithLevel ==
    ConfigurableFormatter(
        [TimestampFormat  |-> <<>>,
         Level            |-> TRUE,
         MsgCtxSeparator  |-> <<>>,
         MsgJustification |-> simpleMsgJust])

\* logger.go 97-102
TerseFormat ==
    ConfigurableFormatter(
        [TimestampFormat  |-> <<>>,
         Level            |-> FALSE,
         MsgCtxSeparator  |-> <<>>,
         MsgJustification |-> simpleMsgJust])

(***************************************************************************)
(* The inputs of the formatter.                                            *)
(***************************************************************************)
Times == {[date |-> "2016-09-08", clock |-> "15:39:45"],
          [date |-> "2017-11-30", clock |-> "03:04:05"]}

MsgChars == {"m"}
Msgs == UNION {[1..n -> MsgChars] : n \in 0..MaxMsgLen}

\* the empty string, a plain string, a string that needs quotes, and a value
\* that is no string
CtxValues == {StrVal(<<>>), StrVal(<<"k">>), StrVal(<<"a", "=">>), IntVal(1)}
Ctxs == UNION {[1..n -> CtxValues] : n \in 0..MaxCtx}

Records == [Time : Times, Lvl : Lvls, Msg : Msgs, Ctx : Ctxs]

customTimeFormat == <<RefDate, "T", RefClock>>
customSeparator == <<"-", "-", ">", " ">>

\* FmtConfig
Cfgs == [TimestampFormat  : {<<>>, customTimeFormat},
         Level            : BOOLEAN,
         MsgCtxSeparator  : {<<>>, customSeparator},
         MsgJustification : {0, 2}]

ZeroCfg == [TimestampFormat |-> <<>>, Level |-> FALSE, MsgCtxSeparator |-> <<>>,
            MsgJustification |-> 0]

Requests ==
    [kind : {"configurable"}, f : Cfgs, timestamps : {FALSE}]
    \cup [kind : {"simple"}, f : {ZeroCfg}, timestamps : BOOLEAN]
    \cup [kind : {"terse"}, f : {ZeroCfg}, timestamps : {FALSE}]

\* the formatter a request stands for
Formatter(q) ==
    CASE q.kind = "configurable" -> ConfigurableFormatter(q.f)
      [] q.kind = "simple"       -> SimpleFormat(q.timestamps)
      [] q.kind = "terse"        -> TerseFormat

(***************************************************************************)
(* Spec: one formatter applied to one record.                              *)
(***************************************************************************)
SinkIdle ==
    /\ handler = <<>>
    /\ ret = <<>>
    /\ opens = <<>>
    /\ file = <<>>
    /\ handled = <<>>
    /\ sysCalls = <<>>
    /\ logRet = <<>>
    /\ call = <<>>

\* the value encoder has not been called
EncIdle ==
    /\ val = Nil
    /\ encoded = <<>>

Init ==
    /\ req \in Requests
    /\ rec \in Records
    /\ out = <<>>
    /\ snap = <<>>
    /\ sawOther = FALSE
    /\ SinkIdle
    /\ EncIdle

\* ConfigurableFormatter(f).Format(r)
FormatConfigurable ==
    /\ req.kind = "configurable"
    /\ out = <<>>
    /\ out' = <<Format(ConfigurableFormatter(req.f), rec)>>
    /\ UNCHANGED <<req, rec, snap, sawOther>>
    /\ UNCHANGED <<sinkVars, call, encVars>>

\* SimpleFormat(timestamps).Format(r)
FormatSimple ==
    /\ req.kind = "simple"
    /\ out = <<>>
    /\ out' = <<Format(SimpleFormat(req.timestamps), rec)>>
    /\ UNCHANGED <<req, rec, snap, sawOther>>
    /\ UNCHANGED <<sinkVars, call, encVars>>

\* TerseFormat().Format(r)
FormatTerse ==
    /\ req.kind = "terse"
    /\ out = <<>>
    /\ out' = <<Format(TerseFormat, rec)>>
    /\ UNCHANGED <<req, rec, snap, sawOther>>
    /\ UNCHANGED <<sinkVars, call, encVars>>

Next == FormatConfigurable \/ FormatSimple \/ FormatTerse

Spec == Init /\ [][Next]_vars

(***************************************************************************)
(* SpecDet: one formatter applied to one record after the other.  Any      *)
(* call may be remembered in snap, to be compared with a later one.        *)
(***************************************************************************)
DetTime == [date |-> "2016-09-08", clock |-> "15:39:45"]

DetCtxs == {<<>>,
            <<StrVal(<<>>)>>,
            <<StrVal(<<"k">>), IntVal(1)>>,
            <<StrVal(<<>>), StrVal(<<"k">>), StrVal(<<"k">>), StrVal(<<"a", "=">>)>>}

DetRecords == [Time : {DetTime}, Lvl : {LvlInfo, LvlOther},
               Msg : {<<>>, <<"m">>}, Ctx : DetCtxs]

\* the zero value of log15.Record
NoRecord == [Time |-> NoTime, Lvl |-> 0, Msg |-> <<>>, Ctx |-> <<>>]

InitDet ==
    /\ req \in Requests
    /\ rec = NoRecord
    /\ out = <<>>
    /\ snap = <<>>
    /\ sawOther = FALSE
    /\ SinkIdle
    /\ EncIdle

\* one more Format call of the same formatter, on record r
FormatAgain(r, keep) ==
    LET b == Format(Formatter(req), r)
    IN  /\ rec' = r
        /\ out' = <<b>>
        /\ snap' = IF keep THEN <<[r |-> r, out |-> b]>> ELSE snap
        /\ sawOther' = IF keep THEN FALSE
                       ELSE sawOther \/ (snap # <<>> /\ snap[1].r # r)
        /\ UNCHANGED req
        /\ UNCHANGED <<sinkVars, call, encVars>>

NextDet == \E r \in DetRecords, keep \in BOOLEAN : FormatAgain(r, keep)

SpecDet == InitDet /\ [][NextDet]_vars

(***************************************************************************)
(* SpecSink: a handler is constructed and records are passed to it.        *)
(***************************************************************************)
LOG_NOTICE == 5
LOG_LOCAL0 == 128
\* syslog.LOG_NOTICE|syslog.LOG_LOCAL0: the two have no bit in common
Priority == LOG_NOTICE + LOG_LOCAL0

Files == {"", "/var/log/app.log"}
Tags == {"", "foo"}
Addrs == {"syslog:514", "127.0.0.1:601"}

SinkCtxs == {<<>>, <<StrVal(<<>>)>>, <<StrVal(<<"k">>), IntVal(1)>>}
\* the last record has a message that ends with a space
SinkRecords ==
    [Time : {DetTime}, Lvl : Lvls, Msg : {<<"m">>}, Ctx : SinkCtxs]
    \cup {[Time |-> DetTime, Lvl |-> LvlInfo, Msg |-> <<"m", " ">>, Ctx |-> <<>>]}

\* a constructor's return value: h and err say which of the two is non-nil
Return(h, err) == [h |-> h, err |-> err]

\* a call of a constructor of this package with its arguments
Call(fn, addr, tag) == [fn |-> fn, addr |-> addr, tag |-> tag]

\* a call of a sink opener and whether it reported an error
Open(fn, addr, priority, tag, failed) ==
    [fn |-> fn, addr |-> addr, priority |-> priority, tag |-> tag, failed |-> failed]

InitSink ==
    /\ req = [kind |-> "simple", f |-> ZeroCfg, timestamps |-> TRUE]
    /\ rec = NoRecord
    /\ out = <<>>
    /\ snap = <<>>
    /\ sawOther = FALSE
    /\ SinkIdle
    /\ EncIdle

\* mutant: the handler is returned along with the error
NewFileHandler_ReturnsBoth(path) ==
    /\ ret = <<>>
    /\ call' = <<Call("NewFileHandler", path, "")>>
    /\ \E failed \in BOOLEAN :
         /\ path = "" => failed
         /\ opens' = Append(opens, Open("FileHandler", path, 0, "", failed))
         /\ ret' = <<Return(TRUE, failed)>>
         /\ handler' = <<[sink |-> "file", fmtr |-> SimpleFormat(TRUE)]>>
    /\ UNCHANGED <<file, handled, sysCalls, logRet>>
    /\ UNCHANGED <<fmtVars, encVars>>

\* logger.go 17-24; log15.FileHandler opens the file for appending, which fails
\* for the empty path and may fail for any other
NewFileHandler(path) ==
    /\ ret = <<>>
    /\ call' = <<Call("NewFileHandler", path, "")>>
    /\ \E failed \in BOOLEAN :
         /\ path = "" => failed
         /\ opens' = Append(opens, Open("FileHandler", path, 0, "", failed))
         /\ IF failed
            THEN /\ ret' = <<Return(FALSE, TRUE)>>
                 /\ handler' = handler
            ELSE /\ ret' = <<Return(TRUE, FALSE)>>
                 /\ handler' = <<[sink |-> "file", fmtr |-> SimpleFormat(TRUE)]>>
    /\ UNCHANGED <<file, handled, sysCalls, logRet>>
    /\ UNCHANGED <<fmtVars, encVars>>

\* logger.go 58-77: the handler newSyslogHandler returns
newSyslogHandler == [sink |-> "syslog", fmtr |-> SimpleFormat(FALSE)]

\* logger.go 29-36
NewSyslogHandler(tag) ==
    /\ ret = <<>>
    /\ call' = <<Call("NewSyslogHandler", "", tag)>>
    /\ \E failed \in BOOLEAN :
         /\ opens' = Append(opens, Open("SyslogNew", "", Priority, tag, failed))
         /\ IF failed
            THEN /\ ret' = <<Return(FALSE, TRUE)>>
                 /\ handler' = handler
            ELSE /\ ret' = <<Return(TRUE, FALSE)>>
                 /\ handler' = <<newSyslogHandler>>
    /\ UNCHANGED <<file, handled, sysCalls, logRet>>
    /\ UNCHANGED <<fmtVars, encVars>>

\* logger.go 40-46
NewTCPSyslogHandler(addr, tag) ==
    /\ ret = <<>>
    /\ call' = <<Call("NewTCPSyslogHandler", addr, tag)>>
    /\ \E failed \in BOOLEAN :
         /\ opens' = Append(opens, Open("SyslogNewTCP", addr, Priority, tag, failed))
         /\ IF failed
            THEN /\ ret' = <<Return(FALSE, TRUE)>>
                 /\ handler' = handler
            ELSE /\ ret' = <<Return(TRUE, FALSE)>>
                 /\ handler' = <<newSyslogHandler>>
    /\ UNCHANGED <<file, handled, sysCalls, logRet>>
    /\ UNCHANGED <<fmtVars, encVars>>

\* mutant: the datagram constructor dials with the stream opener
NewUDPSyslogHandler_TCPOpener(addr, tag) ==
    /\ ret = <<>>
    /\ call' = <<Call("NewUDPSyslogHandler", addr, tag)>>
    /\ \E failed \in BOOLEAN :
         /\ opens' = Append(opens, Open("SyslogNewTCP", addr, Priority, tag, failed))
         /\ IF failed
            THEN /\ ret' = <<Return(FALSE, TRUE)>>
                 /\ handler' = handler
            ELSE /\ ret' = <<Return(TRUE, FALSE)>>
                 /\ handler' = <<newSyslogHandler>>
    /\ UNCHANGED <<file, handled, sysCalls, logRet>>
    /\ UNCHANGED <<fmtVars, encVars>>

\* logger.go 50-56
NewUDPSyslogHandler(addr, tag) ==
    /\ ret = <<>>
    /\ call' = <<Call("NewUDPSyslogHandler", addr, tag)>>
    /\ \E failed \in BOOLEAN :
         /\ opens' = Append(opens, Open("SyslogNewUDP", addr, Priority, tag, failed))
         /\ IF failed
            THEN /\ ret' = <<Return(FALSE, TRUE)>>
                 /\ handler' = handler
            ELSE /\ ret' = <<Return(TRUE, FALSE)>>
                 /\ handler' = <<newSyslogHandler>>
    /\ UNCHANGED <<file, handled, sysCalls, logRet>>
    /\ UNCHANGED <<fmtVars, encVars>>

\* logger.go 60-72: the severity function of the writer chosen for a level
SyslogFn(lvl) ==
    CASE lvl = LvlCrit  -> "Crit"
      [] lvl = LvlError -> "Err"
      [] lvl = LvlWarn  -> "Warning"
      [] lvl = LvlInfo  -> "Info"
      [] lvl = LvlDebug -> "Debug"
      [] OTHER          -> "Info"

\* The file handler (log15.FileHandler over SimpleFormat(true)) handles record r:
\* it writes the formatted line to the file, which takes every write.
FileLog(r) ==
    /\ handler # <<>>
    /\ handler[1].sink = "file"
    /\ Len(handled) < MaxLog
    /\ LET b == Format(handler[1].fmtr, r)
       IN  /\ rec' = r
           /\ out' = <<b>>
           /\ handled' = Append(handled, r)
           /\ IF b.ok
              THEN /\ file' = file \o b.bytes
                   /\ logRet' = Append(logRet, "nil")
              ELSE /\ file' = file
                   /\ logRet' = Append(logRet, "panic")
    /\ UNCHANGED <<req, snap, sawOther, handler, ret, opens, sysCalls, call, encVars>>

\* mutant: the line is passed to the writer as the formatter returned it
SyslogLog_Untrimmed(r, werr) ==
    /\ handler # <<>>
    /\ handler[1].sink = "syslog"
    /\ Len(handled) < MaxLog
    /\ LET syslogFn == SyslogFn(r.Lvl)
           b == Format(SimpleFormat(FALSE), r)
       IN  /\ rec' = r
           /\ out' = <<b>>
           /\ handled' = Append(handled, r)
           /\ IF b.ok
              THEN /\ sysCalls' = Append(sysCalls,
                                         [fn |-> syslogFn, s |-> b.bytes,
                                          err |-> werr, r |-> Len(handled) + 1])
                   /\ logRet' = Append(logRet, werr)
              ELSE /\ werr = "nil"
                   /\ sysCalls' = sysCalls
                   /\ logRet' = Append(logRet, "panic")
    /\ UNCHANGED <<req, snap, sawOther, handler, ret, opens, file, call, encVars>>

\* logger.go 59-76: the syslog handler handles record r; werr is what the
\* severity function of the writer returns
SyslogLog(r, werr) ==
    /\ handler # <<>>
    /\ handler[1].sink = "syslog"
    /\ Len(handled) < MaxLog
    /\ LET syslogFn == SyslogFn(r.Lvl)
           b == Format(SimpleFormat(FALSE), r)
       IN  /\ rec' = r
           /\ out' = <<b>>
           /\ handled' = Append(handled, r)
           /\ IF b.ok
              THEN /\ sysCalls' = Append(sysCalls,
                                         [fn |-> syslogFn, s |-> TrimSpace(b.bytes),
                                          err |-> werr, r |-> Len(handled) + 1])
                   /\ logRet' = Append(logRet, werr)
              ELSE /\ werr = "nil"
                   /\ sysCalls' = sysCalls
                   /\ logRet' = Append(logRet, "panic")
    /\ UNCHANGED <<req, snap, sawOther, handler, ret, opens, file, call, encVars>>

NextSink ==
    \/ \E path \in Files : NewFileHandler(path)
    \/ \E tag \in Tags : NewSyslogHandler(tag)
    \/ \E addr \in Addrs, tag \in Tags : NewTCPSyslogHandler(addr, tag)
    \/ \E addr \in Addrs, tag \in Tags : NewUDPSyslogHandler(addr, tag)
    \/ \E r \in SinkRecords : FileLog(r)
    \/ \E r \in SinkRecords, werr \in {"nil", "err"} : SyslogLog(r, werr)

SpecSink == InitSink /\ [][NextSink]_vars

(***************************************************************************)
(* SpecEncode: the value encoder applied to one context value.             *)
(***************************************************************************)
\* a letter, the characters escapeString treats apart, and a control character
EncChars == {"a", " ", "=", "\"", "\\", "\n", "\r", "\t"}
EncStrings == UNION {[1..n -> EncChars] : n \in 0..MaxStrLen}

\* texts of Error() and String() methods and "%+v" renderings of structs
EncTexts == {<<>>, <<"e","o","f">>, <<"n","o"," ","f","i","l","e">>, <<"a","=","1">>}
EncStructs == {<<"{","v","a","l",":","b","a","r","}">>,
               <<"{","A",":","1"," ","B",":","2","}">>,
               <<"{","s",":","\"","}">>}

SignedTypes == {"int", "int8", "int16", "int32", "int64"}
EncInts == {0, 7, 105}
EncNegInts == {-1, -128}
NotNumbers == {<<"N","a","N">>, <<"+","I","n","f">>, <<"-","I","n","f">>}

EncValues ==
    {Nil, NilPtrVal, BoolVal(TRUE), BoolVal(FALSE)}
    \cup {IntOfType(ty, n) : ty \in IntTypes, n \in EncInts}
    \cup {IntOfType(ty, n) : ty \in SignedTypes, n \in EncNegInts}
    \cup {FloatVal(ty, n) : ty \in FloatTypes, n \in (0 - MaxSixteenths)..MaxSixteenths}
    \cup {FloatSpecial(ty, name) : ty \in FloatTypes, name \in NotNumbers}
    \cup {StrVal(x) : x \in EncStrings}
    \cup {TimeVal(tm) : tm \in Times}
    \cup {ErrorVal(x) : x \in EncTexts}
    \cup {StringerVal(x) : x \in EncTexts}
    \cup {ErrorStringerVal(e, x) : e \in EncTexts, x \in EncTexts}
    \cup {StructVal(x) : x \in EncStructs}

InitEncode ==
    /\ req = [kind |-> "simple", f |-> ZeroCfg, timestamps |-> TRUE]
    /\ rec = NoRecord
    /\ out = <<>>
    /\ snap = <<>>
    /\ sawOther = FALSE
    /\ SinkIdle
    /\ val \in EncValues
    /\ encoded = <<>>

\* formatLogfmtValue(val)
Encode ==
    /\ encoded = <<>>
    /\ encoded' = <<formatLogfmtValue(val)>>
    /\ UNCHANGED <<val, call>>
    /\ UNCHANGED <<fmtVars, sinkVars>>

NextEncode == Encode

SpecEncode == InitEncode /\ [][NextEncode]_vars

(***************************************************************************)
(* SpecLine: one formatter applied to one record whose texts may hold      *)
(* newlines.                                                               *)
(***************************************************************************)
newlineTimeFormat == <<RefClock, "\n">>
newlineSeparator == <<"\n">>

LineCfgs == [TimestampFormat  : {<<>>, simpleTimeFormat, newlineTimeFormat},
             Level            : BOOLEAN,
             MsgCtxSeparator  : {<<>>, newlineSeparator},
             MsgJustification : {0, 2}]

LineRequests ==
    [kind : {"configurable"}, f : LineCfgs, timestamps : {FALSE}]
    \cup [kind : {"simple"}, f : {ZeroCfg}, timestamps : BOOLEAN]
    \cup [kind : {"terse"}, f : {ZeroCfg}, timestamps : {FALSE}]

LineMsgs == {<<>>, <<"m">>, <<"\n">>}
LineValues == {StrVal(<<>>), StrVal(<<"k">>), StrVal(<<"\n">>), ErrorVal(<<"\n">>),
               StructVal(<<"{", "\n", "}">>)}
LineCtxs == UNION {[1..n -> LineValues] : n \in 0..MaxLineCtx}
LineRecords == [Time : {DetTime}, Lvl : {LvlInfo}, Msg : LineMsgs, Ctx : LineCtxs]

InitLine ==
    /\ req \in LineRequests
    /\ rec \in LineRecords
    /\ out = <<>>
    /\ snap = <<>>
    /\ sawOther = FALSE
    /\ SinkIdle
    /\ EncIdle

SpecLine == InitLine /\ [][Next]_vars

(***************************************************************************)
(* Vocabulary of the properties.                                           *)
(***************************************************************************)
StartsWith(s, p) == Len(p) <= Len(s) /\ SubSeq(s, 1, Len(p)) = p
EndsWith(s, p) == Len(p) <= Len(s) /\ SubSeq(s, Len(s) - Len(p) + 1, Len(s)) = p
Contains(s, p) ==
    \E i \in 0..(Len(s) - Len(p)) : SubSeq(s, i + 1, i + Len(p)) = p
Spaces(n) == [i \in 1..n |-> " "]

\* the upper-cased names of the five log15 levels
UpperLevelName(l) ==
    CASE l = LvlCrit  -> <<"C","R","I","T">>
      [] l = LvlError -> <<"E","R","O","R">>
      [] l = LvlWarn  -> <<"W","A","R","N">>
      [] l = LvlInfo  -> <<"I","N","F","O">>
      [] l = LvlDebug -> <<"D","B","U","G">>

LogErr == <<"L","O","G","_","E","R","R">>

\* the record starts with the empty tag: its first context key is the empty string
TagPresent(c) == Len(c) > 0 /\ c[1] = StrVal(<<>>)

\* the number of context elements after the optional empty tag
Remaining(c) == IF TagPresent(c) THEN Len(c) - 2 ELSE Len(c)

\* the first key position after the optional empty tag
FirstKey(c) == IF TagPresent(c) THEN 3 ELSE 1

\* what is written for the empty tag: its value, or LOG_ERR="" when that is no string
TagText(c) ==
    IF c[2].t = "string" THEN c[2].s ELSE LogErr \o <<"=", "\"", "\"">>

\* the key=value list from key position i on, pairs separated by one space
RECURSIVE ExpectedPairs(_, _)
ExpectedPairs(c, i) ==
    IF i > Len(c) THEN <<>>
    ELSE LET pair == IF c[i].t = "string"
                     THEN c[i].s \o <<"=">> \o formatLogfmtValue(c[i + 1])
                     ELSE LogErr \o <<"=">> \o formatLogfmtValue(c[i])
         IN  IF i + 2 > Len(c) THEN pair
             ELSE pair \o <<" ">> \o ExpectedPairs(c, i + 2)

\* every key position after the optional empty tag holds a string
AllKeysStrings(c) ==
    \A i \in FirstKey(c)..Len(c) : (i - FirstKey(c)) % 2 = 0 => c[i].t = "string"

\* the configuration the formatter of the request was built from
EffectiveSeparator ==
    IF req.kind = "configurable" /\ req.f.MsgCtxSeparator # <<>>
    THEN req.f.MsgCtxSeparator ELSE <<" ">>

Returned == out # <<>> /\ out[1].ok

(***************************************************************************)
(* C1 (as claimed): formatting cannot fail: every Format call returns a    *)
(* line, whatever the configuration and the record, a context list of odd  *)
(* length or holding a single empty-string key included.                   *)
(***************************************************************************)
C1_FormatNeverPanics == out # <<>> => out[1].ok

C7_Justification ==
    (req.kind = "configurable" /\ Returned) =>
        LET f == req.f
            o == out[1].bytes
            c == rec.Ctx
            pad == Spaces(f.MsgJustification - Len(rec.Msg))
            sep == IF f.MsgCtxSeparator = <<>> THEN <<" ">> ELSE f.MsgCtxSeparator
        IN  IF Remaining(c) > 0
            THEN EndsWith(o, rec.Msg \o pad \o sep
                             \o ExpectedPairs(c, FirstKey(c)) \o <<"\n">>)
            ELSE /\ EndsWith(o, rec.Msg \o <<"\n">>)
                 /\ (rec.Msg = <<>> /\ ~TagPresent(c)) =>
                        (Len(o) = 1 \/ o[Len(o) - 1] # " ")
                 /\ (rec.Msg = <<>> /\ TagPresent(c) /\ TagText(c) # <<>>) =>
                        EndsWith(o, TagText(c) \o <<"\n">>)

C7_Witness ==
    /\ req.kind = "configurable"
    /\ Returned
    /\ req.f.MsgJustification > Len(rec.Msg)
    /\ rec.Msg # <<>>
    /\ req.f.MsgCtxSeparator # <<>>
    /\ Remaining(rec.Ctx) > 0

(***************************************************************************)
(* C8: SimpleFormat(true) writes '[' + time as "2006-01-02 15:04:05" +     *)
(* '] ' and then exactly what SimpleFormat(false) writes; both write the   *)
(* upper-cased level and justify the message to 40 columns.                *)
(***************************************************************************)
C8_SimpleTimestampsToggle ==
    (req.kind = "simple" /\ out # <<>>) =>
        LET without == Format(SimpleFormat(FALSE), rec)
            stamp == <<"[", rec.Time.date, " ", rec.Time.clock, "]", " ">>
            c == rec.Ctx
        IN  /\ req.timestamps =>
                 /\ out[1].ok = without.ok
                 /\ out[1].ok => out[1].bytes = stamp \o without.bytes
            /\ out[1].ok =>
                 /\ StartsWith(out[1].bytes,
                               IF req.timestamps
                               THEN stamp \o UpperLevelName(rec.Lvl)
                               ELSE UpperLevelName(rec.Lvl))
                 /\ Remaining(c) > 0 =>
                      EndsWith(out[1].bytes,
                               rec.Msg \o Spaces(40 - Len(rec.Msg)) \o <<" ">>
                               \o ExpectedPairs(c, FirstKey(c)) \o <<"\n">>)

C8_Witness ==
    /\ req.kind = "simple"
    /\ req.timestamps
    /\ Returned
    /\ rec.Msg # <<>>
    /\ Remaining(rec.Ctx) > 0

(***************************************************************************)
(* C9: the line of TerseFormat holds neither timestamp nor level: it is    *)
(* the optional empty-tag value, the message and the pairs justified to 40 *)
(* columns, and it is what ConfigurableFormatter writes for                *)
(* FmtConfig{MsgJustification: 40}.                                        *)
(***************************************************************************)
C9_TerseNoMetadata ==
    (req.kind = "terse" /\ out # <<>>) =>
        LET c == rec.Ctx
            tag == IF TagPresent(c) THEN TagText(c) ELSE <<>>
            head == IF tag # <<>> /\ rec.Msg # <<>>
                    THEN tag \o <<" ">> \o rec.Msg
                    ELSE tag \o rec.Msg
            tail == IF Remaining(c) > 0
                    THEN Spaces(40 - Len(rec.Msg)) \o <<" ">>
                         \o ExpectedPairs(c, FirstKey(c))
                    ELSE <<>>
        IN  /\ out[1].ok => out[1].bytes = head \o tail \o <<"\n">>
            /\ out[1] = Format(ConfigurableFormatter(
                                 [TimestampFormat |-> <<>>, Level |-> FALSE,
                                  MsgCtxSeparator |-> <<>>,
                                  MsgJustification |-> 40]), rec)

C9_Witness ==
    /\ req.kind = "terse"
    /\ Returned
    /\ TagPresent(rec.Ctx)
    /\ rec.Msg # <<>>
    /\ Remaining(rec.Ctx) > 0

(***************************************************************************)
(* C10: when all keys are strings the pairs are written in the order of    *)
(* the context list, each as key '=' encoded value, one space between two  *)
(* pairs and none after the last; none is reordered, repeated or omitted.  *)
(***************************************************************************)
C10_PairsInOrder ==
    (Returned /\ Remaining(rec.Ctx) > 0 /\ AllKeysStrings(rec.Ctx)) =>
        LET c == rec.Ctx
            n == Remaining(c) \div 2
            pair(j) == c[FirstKey(c) + 2 * (j - 1)].s \o <<"=">>
                       \o formatLogfmtValue(c[FirstKey(c) + 2 * (j - 1) + 1])
            \* the text of the pairs j..n, one space between two of them
            joined[j \in 1..n] ==
                IF j = n THEN pair(j) ELSE pair(j) \o <<" ">> \o joined[j + 1]
        IN  /\ Remaining(c) % 2 = 0
            /\ EndsWith(out[1].bytes, EffectiveSeparator \o joined[1] \o <<"\n">>)

C10_Witness ==
    /\ Returned
    /\ AllKeysStrings(rec.Ctx)
    /\ Remaining(rec.Ctx) = 4
    /\ rec.Ctx[FirstKey(rec.Ctx)] # rec.Ctx[FirstKey(rec.Ctx) + 2]

C3_ConstructorOutcome ==
    ret # <<>> =>
        /\ Len(opens) = 1
        /\ opens[1].failed => (~ret[1].h /\ ret[1].err /\ handler = <<>>)
        /\ ~opens[1].failed => (ret[1].h /\ ~ret[1].err /\ handler # <<>>)
        /\ ret[1].h # ret[1].err

C3_Witness ==
    /\ ret # <<>>
    /\ opens[1].fn = "FileHandler"
    /\ opens[1].addr = ""
    /\ opens[1].failed

(***************************************************************************)
(* C4 (as claimed): the syslog handler calls, for every record it handles, *)
(* exactly one severity function of the writer: Crit for Crit, Err for     *)
(* Error, Warning for Warn, Info for Info, Debug for Debug and Info for    *)
(* any other level; and it returns the error of that call.                 *)
(***************************************************************************)
ExpectedSeverity(lvl) ==
    CASE lvl = LvlCrit  -> "Crit"
      [] lvl = LvlError -> "Err"
      [] lvl = LvlWarn  -> "Warning"
      [] lvl = LvlInfo  -> "Info"
      [] lvl = LvlDebug -> "Debug"
      [] OTHER          -> "Info"

C4_OneSeverityCallPerRecord ==
    (handler # <<>> /\ handler[1].sink = "syslog") =>
        /\ Len(sysCalls) = Len(handled)
        /\ \A i \in DOMAIN sysCalls :
             /\ sysCalls[i].fn = ExpectedSeverity(handled[i].Lvl)
             /\ logRet[i] = sysCalls[i].err

(***************************************************************************)
(* C5 (as claimed): the file holds, in call order, one newline-terminated  *)
(* line per record passed to the file handler, each the formatter's output *)
(* for that record; none is lost, duplicated or reordered.                 *)
(***************************************************************************)
RECURSIVE LinesOf(_)
LinesOf(rs) ==
    IF rs = <<>> THEN <<>>
    ELSE Format(SimpleFormat(TRUE), Head(rs)).bytes \o LinesOf(Tail(rs))

NewlineCount(s) == Cardinality({i \in DOMAIN s : s[i] = "\n"})

C5_FileIsConcatenation ==
    (handler # <<>> /\ handler[1].sink = "file") =>
        /\ file = LinesOf(handled)
        /\ NewlineCount(file) = Len(handled)

(***************************************************************************)
(* C11: a key position that holds no string is written as LOG_ERR= and the *)
(* encoding of that element, in its place in the list, and the element in  *)
(* the paired value position is not written at all.                        *)
(***************************************************************************)
C11_NonStringKey ==
    (Returned /\ Remaining(rec.Ctx) > 0 /\ ~AllKeysStrings(rec.Ctx)) =>
        LET c == rec.Ctx
            n == (Remaining(c) + 1) \div 2
            key(j) == c[FirstKey(c) + 2 * (j - 1)]
            pair(j) == IF key(j).t = "string"
                       THEN key(j).s \o <<"=">>
                            \o formatLogfmtValue(c[FirstKey(c) + 2 * (j - 1) + 1])
                       ELSE LogErr \o <<"=">> \o formatLogfmtValue(key(j))
            joined[j \in 1..n] ==
                IF j = n THEN pair(j) ELSE pair(j) \o <<" ">> \o joined[j + 1]
        IN  \* a key without a value is no string
            /\ Remaining(c) % 2 = 1 => c[Len(c)].t # "string"
            /\ EndsWith(out[1].bytes, EffectiveSeparator \o joined[1] \o <<"\n">>)

\* two keys that are no strings, each paired with a value that is written
\* differently from it
C11_Witness ==
    /\ Returned
    /\ Remaining(rec.Ctx) = 4
    /\ LET c == rec.Ctx
           k == FirstKey(c)
       IN  /\ c[k].t # "string" /\ c[k + 2].t # "string"
           /\ c[k + 1] # c[k] /\ c[k + 3] # c[k + 2]
           /\ EndsWith(out[1].bytes,
                       <<" ">> \o LogErr \o <<"=", "1", " ">> \o LogErr \o <<"=", "1", "\n">>)

(***************************************************************************)
(* More vocabulary: the configuration a request stands for, and the parts  *)
(* of the line around the empty tag.                                       *)
(***************************************************************************)
EffectiveTimestampFormat ==
    CASE req.kind = "configurable" -> req.f.TimestampFormat
      [] req.kind = "simple" ->
            IF req.timestamps THEN <<RefDate, " ", RefClock>> ELSE <<>>
      [] req.kind = "terse" -> <<>>

EffectiveLevel ==
    CASE req.kind = "configurable" -> req.f.Level
      [] req.kind = "simple" -> TRUE
      [] req.kind = "terse" -> FALSE

EffectiveJustification ==
    IF req.kind = "configurable" THEN req.f.MsgJustification ELSE 40

\* the bracketed timestamp and the level, as far as the configuration asks for them
ExpectedPrefix ==
    LET ts == IF EffectiveTimestampFormat # <<>>
              THEN <<"[">> \o TimeFormat(rec.Time, EffectiveTimestampFormat) \o <<"]">>
              ELSE <<>>
        lv == IF EffectiveLevel THEN UpperLevelName(rec.Lvl) ELSE <<>>
    IN  IF ts # <<>> /\ lv # <<>> THEN ts \o <<" ">> \o lv ELSE ts \o lv

\* what follows the message: padding, separator and the pairs from key position i
\* on, then the newline
ExpectedRest(i) ==
    LET pad == IF Len(rec.Msg) < EffectiveJustification
               THEN Spaces(EffectiveJustification - Len(rec.Msg)) ELSE <<>>
    IN  IF i <= Len(rec.Ctx)
        THEN pad \o EffectiveSeparator \o ExpectedPairs(rec.Ctx, i) \o <<"\n">>
        ELSE <<"\n">>

\* the first context key is the empty string and its value is a string
StringTag == TagPresent(rec.Ctx) /\ Len(rec.Ctx) >= 2 /\ rec.Ctx[2].t = "string"

(***************************************************************************)
(* C12 (as claimed): the string value of the empty tag is written as it    *)
(* is, one space after what precedes it and one space before the message,  *)
(* and the key=value list starts after that pair.                          *)
(***************************************************************************)
C12_TagOneSpaceBeforeMessage ==
    (Returned /\ StringTag) =>
        LET v == rec.Ctx[2].s
            head == IF ExpectedPrefix # <<>> THEN ExpectedPrefix \o <<" ">> \o v ELSE v
            msg == IF rec.Msg # <<>> THEN <<" ">> \o rec.Msg ELSE <<>>
        IN  out[1].bytes = head \o msg \o ExpectedRest(3)

(***************************************************************************)
(* C12 (amended): the string value of the empty tag is written as it is,   *)
(* one space after the timestamp or level when there is one; the message   *)
(* follows it after one space, except that the message starts the line     *)
(* when the value is empty and no timestamp or level precedes it; the      *)
(* key=value list starts after that pair.                                  *)
(***************************************************************************)
C12_EmptyTagLiteral ==
    (Returned /\ StringTag) =>
        LET v == rec.Ctx[2].s
            head == IF ExpectedPrefix # <<>> THEN ExpectedPrefix \o <<" ">> \o v ELSE v
            msg == IF rec.Msg # <<>> /\ head # <<>> THEN <<" ">> \o rec.Msg ELSE rec.Msg
        IN  out[1].bytes = head \o msg \o ExpectedRest(3)

\* a tag value that a pair's value would be quoted for, after a level and
\* before a message and a pair
C12_Witness ==
    /\ Returned
    /\ StringTag
    /\ rec.Ctx[2] = StrVal(<<"a", "=">>)
    /\ EffectiveLevel
    /\ rec.Msg = <<"m">>
    /\ Len(rec.Ctx) = 4
    /\ Contains(out[1].bytes, <<" ", "a", "=", " ", "m">>)

(***************************************************************************)
(* Vocabulary of the value encoder.                                        *)
(***************************************************************************)
Encoded == encoded # <<>>

AllDigits(s) == Len(s) > 0 /\ \A i \in DOMAIN s : s[i] \in {DigitChars[j] : j \in 1..10}

DigitValue(ch) == CHOOSE d \in 0..9 : DigitChars[d + 1] = ch

\* the number a sequence of digits stands for
RECURSIVE DecimalValue(_)
DecimalValue(s) ==
    IF s = <<>> THEN 0
    ELSE 10 * DecimalValue(SubSeq(s, 1, Len(s) - 1)) + DigitValue(s[Len(s)])

\* s is the decimal notation of the integer n
IsDecimalOf(s, n) ==
    IF n < 0
    THEN Len(s) > 1 /\ s[1] = "-" /\ AllDigits(Tail(s)) /\ DecimalValue(Tail(s)) = 0 - n
    ELSE AllDigits(s) /\ DecimalValue(s) = n

\* s is wrapped in double quotes
Quoted(s) == Len(s) >= 2 /\ s[1] = "\"" /\ s[Len(s)] = "\""

(***************************************************************************)
(* C13 (as claimed): nil is encoded as nil, a boolean as true or false,    *)
(* an integer of any signed or unsigned type as its decimal digits, and a  *)
(* struct as its "%+v" rendering.                                          *)
(***************************************************************************)
C13_StructIsItsRendering ==
    Encoded =>
        /\ val = Nil => encoded[1] = <<"n", "i", "l">>
        /\ val.t = "bool" =>
              encoded[1] = IF val.n = 1 THEN <<"t", "r", "u", "e">>
                                        ELSE <<"f", "a", "l", "s", "e">>
        /\ val.t \in IntTypes => IsDecimalOf(encoded[1], val.n)
        /\ val.t = "struct" => encoded[1] = val.s

(***************************************************************************)
(* C13 (amended): nil is encoded as nil, a boolean as true or false, an    *)
(* integer of any signed or unsigned type as its decimal digits, all       *)
(* without quotes; a struct is encoded as a string holding its "%+v"       *)
(* rendering would be, quoted and escaped when the rendering asks for it.  *)
(***************************************************************************)
C13_ScalarsAndStructs ==
    Encoded =>
        /\ val = Nil => encoded[1] = <<"n", "i", "l">>
        /\ val.t = "bool" =>
              encoded[1] = IF val.n = 1 THEN <<"t", "r", "u", "e">>
                                        ELSE <<"f", "a", "l", "s", "e">>
        /\ val.t \in IntTypes => IsDecimalOf(encoded[1], val.n)
        /\ val.t = "struct" =>
              /\ encoded[1] = formatLogfmtValue(StrVal(val.s))
              /\ ~Quoted(encoded[1]) => encoded[1] = val.s

\* a struct whose rendering holds a space has been encoded
C13_Witness ==
    /\ Encoded
    /\ val = StructVal(<<"{", "A", ":", "1", " ", "B", ":", "2", "}">>)
    /\ encoded[1] = <<"\"", "{", "A", ":", "1", " ", "B", ":", "2", "}", "\"">>

\* s is fixed-point notation: an optional '-', digits, '.', three digits
FixedPoint3(s) ==
    LET body == IF Len(s) > 0 /\ s[1] = "-" THEN Tail(s) ELSE s
        l == Len(body)
    IN  /\ l >= 5
        /\ body[l - 3] = "."
        /\ AllDigits(SubSeq(body, 1, l - 4))
        /\ AllDigits(SubSeq(body, l - 2, l))

\* the number of thousandths the fixed-point notation s stands for, sign apart
Thousandths(s) ==
    LET body == IF s[1] = "-" THEN Tail(s) ELSE s
        l == Len(body)
    IN  1000 * DecimalValue(SubSeq(body, 1, l - 4)) + DecimalValue(SubSeq(body, l - 2, l))

(***************************************************************************)
(* C14 (as claimed): every float32 and float64 value is encoded in         *)
(* fixed-point notation with exactly three digits after the decimal point. *)
(***************************************************************************)
C14_EveryFloatFixedPoint ==
    (Encoded /\ val.t \in FloatTypes) => FixedPoint3(encoded[1])

(***************************************************************************)
(* C14 (amended): every finite float32 and float64 value is encoded in     *)
(* fixed-point notation with exactly three digits after the decimal point, *)
(* a '-' in front iff it is negative, and the digits are those of a        *)
(* thousandth nearest to the value; NaN and the infinities are encoded as  *)
(* NaN, +Inf and -Inf.                                                     *)
(***************************************************************************)
C14_FiniteFloatFixedPoint ==
    (Encoded /\ val.t \in FloatTypes) =>
        IF val.s = <<>>
        THEN /\ FixedPoint3(encoded[1])
             /\ (encoded[1][1] = "-") <=> (val.n < 0)
             \* | thousandths - 1000 * n/16 | <= 1/2, in 1/2000
             /\ LET a == IF val.n < 0 THEN 0 - val.n ELSE val.n
                    d == 2 * Thousandths(encoded[1]) - 125 * a
                IN  d \in {-1, 0, 1}
        ELSE encoded[1] = val.s

\* 1/16 = 0.0625 lies halfway between two thousandths and is written 0.062
C14_Witness ==
    /\ Encoded
    /\ val = FloatVal("float32", 1)
    /\ encoded[1] = <<"0", ".", "0", "6", "2">>

\* the characters that ask for quotes: whitespace and control characters, '=', '"'
AsksForQuotes == {" ", "\n", "\r", "\t", "=", "\""}

(***************************************************************************)
(* C15: the encoding of a string is wrapped in double quotes iff the       *)
(* string holds a character at or below space, an '=' or a '"'; an         *)
(* encoding without quotes holds none of these characters.                 *)
(***************************************************************************)
C15_QuotedIffNeeded ==
    (Encoded /\ val.t = "string") =>
        LET e == encoded[1]
        IN  /\ Quoted(e) <=> (\E i \in DOMAIN val.s : val.s[i] \in AsksForQuotes)
            /\ ~Quoted(e) => \A i \in DOMAIN e : e[i] \notin AsksForQuotes

\* a string with an '=' and one without any such character, told apart by
\* the quotes of the first
C15_Witness ==
    /\ Encoded
    /\ val = StrVal(<<"a", "=">>)
    /\ encoded[1] = <<"\"", "a", "=", "\"">>
    /\ formatLogfmtValue(StrVal(<<"a", "\\">>)) = <<"a", "\\", "\\">>

\* the opener each syslog constructor is to use
OpenerOf(fn) ==
    CASE fn = "NewSyslogHandler"    -> "SyslogNew"
      [] fn = "NewTCPSyslogHandler" -> "SyslogNewTCP"
      [] fn = "NewUDPSyslogHandler" -> "SyslogNewUDP"

(***************************************************************************)
(* C16: a syslog constructor calls one opener, once: the local one for     *)
(* NewSyslogHandler, the TCP one for NewTCPSyslogHandler, the UDP one for  *)
(* NewUDPSyslogHandler, with the caller's tag, for TCP and UDP the         *)
(* caller's address, and the priority LOG_NOTICE|LOG_LOCAL0 (5|128 = 133); *)
(* nothing is opened before the constructor is called.                     *)
(***************************************************************************)
C16_OpenerArguments ==
    /\ call = <<>> => opens = <<>>
    /\ (call # <<>> /\ call[1].fn # "NewFileHandler") =>
          /\ Len(opens) = 1
          /\ opens[1].fn = OpenerOf(call[1].fn)
          /\ opens[1].tag = call[1].tag
          /\ opens[1].priority = 133
          /\ call[1].fn \in {"NewTCPSyslogHandler", "NewUDPSyslogHandler"} =>
                opens[1].addr = call[1].addr

\* the UDP constructor has been called and its handler has handled a record
C16_Witness ==
    /\ call = <<Call("NewUDPSyslogHandler", "127.0.0.1:601", "foo")>>
    /\ opens = <<Open("SyslogNewUDP", "127.0.0.1:601", 133, "foo", FALSE)>>
    /\ Len(handled) > 0

(***************************************************************************)
(* C17: the text the syslog handler passes to the writer is the line       *)
(* SimpleFormat(false) makes of the record (level, message, justified      *)
(* pairs; no timestamp) without the whitespace at its ends: it starts with *)
(* the level name and does not end with the newline.                       *)
(***************************************************************************)
C17_SyslogMessage ==
    \A i \in DOMAIN sysCalls :
        LET r == handled[sysCalls[i].r]
            s == sysCalls[i].s
            line == UpperLevelName(r.Lvl) \o <<" ">> \o r.Msg
                    \o (IF r.Ctx # <<>>
                        THEN Spaces(40 - Len(r.Msg)) \o <<" ">> \o ExpectedPairs(r.Ctx, 1)
                        ELSE <<>>)
                    \o <<"\n">>
        IN  /\ StartsWith(line, s)
            /\ \A k \in (Len(s) + 1)..Len(line) : line[k] \in {" ", "\n", "\t", "\r"}
            /\ StartsWith(s, UpperLevelName(r.Lvl))
            /\ s[Len(s)] \notin {" ", "\n", "\t", "\r"}

\* a record whose line ends with a space and the newline has been passed on
C17_Witness ==
    /\ Len(sysCalls) > 0
    /\ handled[sysCalls[1].r].Msg = <<"m", " ">>
    /\ sysCalls[1].s = <<"I", "N", "F", "O", " ", "m">>

(***************************************************************************)
(* C18: a time.Time is encoded as the quoted text "2006-01-02 15:04:05"    *)
(* makes of it, not as its String() text; any other value that is an error *)
(* is encoded as a string holding its Error() text would be, also when it  *)
(* is a Stringer too; a Stringer that is no error is encoded as a string   *)
(* holding its String() text would be.                                     *)
(***************************************************************************)
C18_ConversionPrecedence ==
    Encoded =>
        /\ val.t = "time" =>
              /\ encoded[1] = <<"\"", val.tm.date, " ", val.tm.clock, "\"">>
              /\ Quoted(encoded[1])
              /\ encoded[1] # formatLogfmtValue(StrVal(val.str))
        /\ val.t \in {"error", "error+stringer"} =>
              encoded[1] = formatLogfmtValue(StrVal(val.s))
        /\ val.t = "stringer" => encoded[1] = formatLogfmtValue(StrVal(val.str))

\* a value that is an error and a Stringer with differing texts, the text of
\* Error() asking for quotes
C18_Witness ==
    /\ Encoded
    /\ val = ErrorStringerVal(<<"n","o"," ","f","i","l","e">>, <<"e","o","f">>)
    /\ encoded[1] = <<"\"", "n","o"," ","f","i","l","e", "\"">>

\* an empty-string key at a key position after the first
LaterEmptyKey(c) == \E i \in 3..Len(c) : i % 2 = 1 /\ c[i] = StrVal(<<>>)

(***************************************************************************)
(* C19: an empty-string key at a key position after the first is written   *)
(* in its place in the key=value list, as '=' and the encoded value; what  *)
(* is written before the message is the value paired with the first key,   *)
(* when that key is the empty string, and nothing else of the context.     *)
(***************************************************************************)
C19_TagOnlyInFirstPosition ==
    (Returned /\ LaterEmptyKey(rec.Ctx)) =>
        LET c == rec.Ctx
            n == (Remaining(c) + 1) \div 2
            key(j) == c[FirstKey(c) + 2 * (j - 1)]
            value(j) == c[FirstKey(c) + 2 * (j - 1) + 1]
            pair(j) == IF key(j) = StrVal(<<>>) THEN <<"=">> \o formatLogfmtValue(value(j))
                       ELSE IF key(j).t = "string"
                       THEN key(j).s \o <<"=">> \o formatLogfmtValue(value(j))
                       ELSE LogErr \o <<"=">> \o formatLogfmtValue(key(j))
            joined[j \in 1..n] ==
                IF j = n THEN pair(j) ELSE pair(j) \o <<" ">> \o joined[j + 1]
            afterTag == IF ~TagPresent(c) THEN ExpectedPrefix
                        ELSE IF ExpectedPrefix # <<>>
                        THEN ExpectedPrefix \o <<" ">> \o TagText(c)
                        ELSE TagText(c)
            afterMsg == IF rec.Msg = <<>> THEN afterTag
                        ELSE IF afterTag # <<>> THEN afterTag \o <<" ">> \o rec.Msg
                        ELSE rec.Msg
            pad == IF Len(rec.Msg) < EffectiveJustification
                   THEN Spaces(EffectiveJustification - Len(rec.Msg)) ELSE <<>>
        IN  out[1].bytes = afterMsg \o pad \o EffectiveSeparator \o joined[1] \o <<"\n">>

\* the empty tag followed by a pair whose key is the empty string
C19_Witness ==
    /\ Returned
    /\ rec.Ctx = <<StrVal(<<>>), StrVal(<<"k">>), StrVal(<<>>), StrVal(<<"a", "=">>)>>
    /\ rec.Msg = <<"m">>
    /\ EndsWith(out[1].bytes, <<" ", "=", "\"", "a", "=", "\"", "\n">>)
    /\ Contains(out[1].bytes, <<"k", " ", "m">>)

HasNewline(s) == \E i \in DOMAIN s : s[i] = "\n"

\* no newline in the message, the string value of the empty tag, the
\* configured separator or a string at a key position
NoNewlineInRawTexts ==
    LET c == rec.Ctx
    IN  /\ ~HasNewline(rec.Msg)
        /\ (TagPresent(c) /\ Len(c) >= 2 /\ c[2].t = "string") => ~HasNewline(c[2].s)
        /\ ~HasNewline(EffectiveSeparator)
        /\ \A i \in FirstKey(c)..Len(c) :
              (i % 2 = 1 /\ c[i].t = "string") => ~HasNewline(c[i].s)

(***************************************************************************)
(* C20 (as claimed): the last byte of every line is '\n', and it is the    *)
(* only newline of the line when neither the message, the empty-tag value, *)
(* the separator nor any key holds one.                                    *)
(***************************************************************************)
C20_OneLinePerRecord ==
    Returned =>
        /\ out[1].bytes[Len(out[1].bytes)] = "\n"
        /\ NoNewlineInRawTexts => NewlineCount(out[1].bytes) = 1

(***************************************************************************)
(* C20 (amended): the last byte of every line is '\n', and it is the only  *)
(* newline of the line when neither the timestamp format, the message, the *)
(* empty-tag value, the separator nor any key holds one, whatever the      *)
(* context values are.                                                     *)
(***************************************************************************)
C20_OneLineUnlessRawNewline ==
    Returned =>
        /\ out[1].bytes[Len(out[1].bytes)] = "\n"
        /\ (NoNewlineInRawTexts /\ ~HasNewline(EffectiveTimestampFormat)) =>
              NewlineCount(out[1].bytes) = 1

\* a pair whose value is a newline, written with the newline escaped
C20_Witness ==
    /\ Returned
    /\ NoNewlineInRawTexts
    /\ rec.Ctx = <<StrVal(<<"k">>), StrVal(<<"\n">>), StrVal(<<"k">>), ErrorVal(<<"\n">>)>>
    /\ EndsWith(out[1].bytes, <<"k", "=", "\"", "\\", "n", "\"", "\n">>)
    /\ NewlineCount(out[1].bytes) = 1

====
